---- MODULE Spec2Model ----
(***************************************************************************)
(* QHFC generational model of EALib (qhfc.h): a metapopulation of K tiers  *)
(* (subpopulations), rank 0 = bottom, rank K-1 = top.  One update runs     *)
(* initialize (update 0 only), breed_top, adjust_admission_levels and the  *)
(* potency tests with their direct refreshes.                              *)
(*                                                                         *)
(* An individual is <<fitness, name>>.  Fitness is a natural number in     *)
(* 0..MaxFit.  Admission levels are rationals; they are stored multiplied  *)
(* by Scale = K*K*N, which makes every level the code computes an integer. *)
(***************************************************************************)
EXTENDS Integers, Sequences, FiniteSets, TLC

\* ------------------------------------------------------------------ bounds
MaxFit == 1
MaxUpdates == 2
MaxNames == 26

\* ------------------------------------------------------- program constants
NoLevel == -1

\* The value of a progress field that was never put.
Unset == NoLevel

VARIABLES
    cfg,        \* the configuration (meta-data), read-only during a run
    pop,        \* pop[r]: the population of tier r, a sequence of individuals
    adm,        \* adm[r]: QHFC_ADMISSION_LEVEL of tier r times Scale, or NoLevel
    lpg,        \* QHFC_LAST_PROGRESS_GEN
    lpm,        \* QHFC_LAST_PROGRESS_MAX
    update,     \* current_update() of the metapopulation
    topUpd,     \* current_update() of the top tier
    nextName,   \* INDIVIDUAL_COUNT: the last name handed out
    pc,         \* position in qhfc::operator()
    bi,         \* loop index i of breed_top
    fi,         \* rank of the tier under test (iterator i of operator())
    ce,         \* catchup_eval of potency_testing
    exports,    \* exports of potency_testing
    trace,      \* stages run so far in the current update
    tourn,      \* the tournament of the last potency step
    imps,       \* the import_from_below calls of the last step
    refill,     \* the stagnation check of the last breed_top iteration
    potent,     \* result of the last potency_testing call
    spfit,      \* max(spfit) of the last breed_top iteration, 0 outside breed_top
    draws       \* the random draws of the last step, each with its generator

vars == <<cfg, pop, adm, lpg, lpm, update, topUpd, nextName, pc, bi, fi, ce,
          exports, trace, tourn, imps, refill, potent, spfit, draws>>

\* --------------------------------------------------------------- helpers
Fit(x) == x[1]
Name(x) == x[2]

Top == cfg.K - 1
Ranks == 0 .. (cfg.K - 1)
Scale == cfg.K * cfg.K * cfg.N

RECURSIVE SumFit(_)
SumFit(s) == IF s = <<>> THEN 0 ELSE Fit(Head(s)) + SumFit(Tail(s))

RECURSIVE MaxFitOf(_)
MaxFitOf(s) == IF Len(s) = 1 THEN Fit(s[1])
               ELSE LET m == MaxFitOf(Tail(s))
                    IN IF Fit(Head(s)) > m THEN Fit(Head(s)) ELSE m

RECURSIVE SumAll(_, _)
SumAll(P, r) == IF r < 0 THEN 0 ELSE SumFit(P[r]) + SumAll(P, r - 1)

RECURSIVE CountAll(_, _)
CountAll(P, r) == IF r < 0 THEN 0 ELSE Len(P[r]) + CountAll(P, r - 1)

\* The subsequence of s at the positions in S, in the order of s.
SubSeqAt(s, S) ==
    LET F[i \in 0 .. Len(s)] ==
            IF i = 0 THEN <<>>
            ELSE IF i \in S THEN Append(F[i - 1], s[i]) ELSE F[i - 1]
    IN F[Len(s)]

\* Names handed out by next<INDIVIDUAL_COUNT>; 0 when names are not tracked.
NameAt(nid, k) == IF cfg.names THEN nid + k ELSE 0
Bump(nid, k) == IF cfg.names THEN nid + k ELSE nid

\* n freshly generated individuals: any fitness, new names.
Generate(n, nid) ==
    { [k \in 1 .. n |-> <<fs[k], NameAt(nid, k)>>] : fs \in [1 .. n -> 0 .. MaxFit] }

\* algorithm::random_split: move n random individuals of src to the output.
RandomSplit(src, n) ==
    { [rest |-> SubSeqAt(src, (1 .. Len(src)) \ S), out |-> SubSeqAt(src, S)] :
        S \in { T \in SUBSET (1 .. Len(src)) : Cardinality(T) = n } }

\* selection::elitism: the n best individuals of src, ties broken randomly.
Elitism(src, n) ==
    { SubSeqAt(src, S) :
        S \in { T \in SUBSET (1 .. Len(src)) :
                  /\ Cardinality(T) = n
                  /\ \A i \in T : \A j \in (1 .. Len(src)) \ T :
                        Fit(src[i]) >= Fit(src[j]) } }

\* A batch size that rounds the product up.
RefillSizeCeil(size) == (cfg.pct[1] * size + cfg.pct[2] - 1) \div cfg.pct[2]

\* static_cast<std::size_t>(percent_refill * size)
RefillSize(size) == (cfg.pct[1] * size) \div cfg.pct[2]

\* All orders of s (std::random_shuffle).
Shuffles(s) ==
    { [i \in 1 .. Len(s) |-> s[p[i]]] :
        p \in { q \in [1 .. Len(s) -> 1 .. Len(s)] :
                  \A i, j \in 1 .. Len(s) : i # j => q[i] # q[j] } }

\* std::sort with comparators::fitness: ascending fitness (insertion order on ties).
RECURSIVE InsertAsc(_, _)
InsertAsc(x, s) ==
    IF s = <<>> THEN <<x>>
    ELSE IF Fit(x) < Fit(Head(s)) THEN <<x>> \o s
    ELSE <<Head(s)>> \o InsertAsc(x, Tail(s))

RECURSIVE SortAsc(_)
SortAsc(s) == IF s = <<>> THEN <<>>
              ELSE InsertAsc(s[Len(s)], SortAsc(SubSeq(s, 1, Len(s) - 1)))

\* One update of a tier's own generational model: an external collaborator that
\* returns a population of the same size.
InternalUpdate(p, nid) == Generate(Len(p), nid)

\* configuration().fill_population at the bottom tier: n generated individuals
\* are appended to the population p.
FillPopulation(p, n, nid) == { p \o g : g \in Generate(n, nid) }

\* configuration().initial_population: POPULATION_SIZE generated individuals.
InitialPopulation(nid) == Generate(cfg.N, nid)

\* The generators: every tier r has the _rng of its evolutionary_algorithm,
\* named by its rank; the metapopulation's own generator is named K.
EaRng == cfg.K

\* A random draw made for op from the generator gen.
Draw(op, gen) == [op |-> op, gen |-> gen]

\* The draws of the import_from_below calls logged in l: every call of the
\* recursion splits with ea.rng().
ImportDraws(l) == IF l = <<>> THEN {} ELSE {Draw("import", EaRng)}

\* One stage record of the trace.
Stage(op, tier, arg) == [op |-> op, tier |-> tier, arg |-> arg]

\* An import that leaves tier f short of the individuals it exported.
RECURSIVE ImportNoAppend(_, _, _, _)
ImportNoAppend(P, f, n, nid) ==
    UNION {
        IF f = 0
        THEN { [pop |-> [P EXCEPT ![0] = q], out |-> s.out, nid |-> Bump(nid, n),
                visited |-> <<0>>,
                fresh |-> [r \in Ranks |-> IF r = 0 THEN Len(q) - Len(s.rest) ELSE 0]] :
                 q \in FillPopulation(s.rest, n, nid) }
        ELSE { [pop |-> b.pop, out |-> s.out, nid |-> b.nid,
                visited |-> <<f>> \o b.visited, fresh |-> b.fresh] :
                 b \in ImportNoAppend([P EXCEPT ![f] = s.rest], f - 1, n, nid) }
        : s \in RandomSplit(P[f], n) }

\* An import that refills every tier with generated individuals instead of
\* cascading to the tier below.
ImportFillsInPlace(P, f, n, nid) ==
    UNION {
        { [pop |-> [P EXCEPT ![f] = q], out |-> s.out, nid |-> Bump(nid, n),
           visited |-> <<f>>,
           fresh |-> [r \in Ranks |-> IF r = f THEN Len(q) - Len(s.rest) ELSE 0]] :
            q \in FillPopulation(s.rest, n, nid) }
        : s \in RandomSplit(P[f], n) }

\* An import that hands the individuals taken from tier f to the tier below
\* as well, in exchange for the ones it takes from there.
ImportSwapsDown(P, f, n, nid) ==
    UNION {
        IF f = 0
        THEN { [pop |-> [P EXCEPT ![0] = q], out |-> s.out, nid |-> Bump(nid, n),
                visited |-> <<0>>,
                fresh |-> [r \in Ranks |-> IF r = 0 THEN Len(q) - Len(s.rest) ELSE 0]] :
                 q \in FillPopulation(s.rest, n, nid) }
        ELSE { [pop |-> [P EXCEPT ![f] = s.rest \o b.out, ![f - 1] = b.rest \o s.out],
                out |-> s.out, nid |-> nid,
                visited |-> <<f, f - 1>>, fresh |-> [r \in Ranks |-> 0]] :
                 b \in RandomSplit(P[f - 1], n) }
        : s \in RandomSplit(P[f], n) }

\* ---------------------------------------------------------------- import
\* import_from_below(f, l, n, ea) on the populations P: every result the random
\* choices allow.  out is the returned exports, visited the ranks of the calls of
\* the recursion in call order, fresh[r] the number of generated individuals
\* added to tier r.
RECURSIVE ImportFromBelow(_, _, _, _)
ImportFromBelow(P, f, n, nid) ==
    UNION {
        IF f = 0
        THEN { [pop |-> [P EXCEPT ![0] = q], out |-> s.out, nid |-> Bump(nid, n),
                visited |-> <<0>>,
                fresh |-> [r \in Ranks |-> IF r = 0 THEN Len(q) - Len(s.rest) ELSE 0]] :
                 q \in FillPopulation(s.rest, n, nid) }
        ELSE { [pop |-> [b.pop EXCEPT ![f] = @ \o b.out], out |-> s.out, nid |-> b.nid,
                visited |-> <<f>> \o b.visited, fresh |-> b.fresh] :
                 b \in ImportFromBelow([P EXCEPT ![f] = s.rest], f - 1, n, nid) }
        : s \in RandomSplit(P[f], n) }

\* A call of import_from_below together with its record for imps.
ImportCall(P, f, n, nid) ==
    { [res |-> b,
       log |-> [f |-> f, n |-> n, src |-> P[f], out |-> b.out,
                before |-> [r \in Ranks |-> Len(P[r])],
                after |-> [r \in Ranks |-> Len(b.pop[r])],
                visited |-> b.visited, fresh |-> b.fresh]] :
        b \in ImportFromBelow(P, f, n, nid) }

\* ------------------------------------------------------------ initialize
\* Sanity checks that forget the refill size.
ConfigErrorTiersOnly == cfg.K <= 2

\* The sanity checks of initialize: the bad_argument_exception cases.
ConfigError == cfg.K <= 2 \/ cfg.N * cfg.pct[1] < cfg.pct[2]

\* The individuals of all tiers with fitness >= the mean, tiers in rank order.
RECURSIVE Survivors(_, _, _, _)
Survivors(P, r, total, cnt) ==
    IF r < 0 THEN <<>>
    ELSE Survivors(P, r - 1, total, cnt)
         \o SelectSeq(P[r], LAMBDA x : Fit(x) * cnt >= total)

\* The state initialize leaves: all is the sorted survivor list, g[r] the
\* population initial_population generated for tier r.  Slot j of tier r is
\* overwritten with a survivor while j <= spsize; the leftover survivors are
\* copied into the bottom tier from slot spsize+1 on.
Spread(all, g) ==
    LET L == Len(all)
        spsize == L \div cfg.K
        left == L - cfg.K * spsize
    IN [r \in Ranks |->
          [j \in 1 .. cfg.N |->
             IF j <= spsize THEN all[L - (Top - r) * spsize - (j - 1)]
             ELSE IF r = 0 /\ j - spsize <= left THEN all[j - spsize]
             ELSE g[r][j]]]

\* The admission levels initialize sets (times Scale).
InitialLevels(all, total, cnt) ==
    LET L == Len(all)
        spsize == L \div cfg.K
    IN [r \in Ranks |->
          IF r = 0 THEN (Scale * total) \div cnt
          ELSE IF spsize > 0 THEN Fit(all[L - (Top - r) * spsize - (spsize - 1)]) * Scale
          ELSE adm[r]]

\* std::copy of the leftover survivors runs past the end of the bottom tier.
CopyOverflows(all) ==
    LET spsize == Len(all) \div cfg.K
    IN spsize + (Len(all) - cfg.K * spsize) > cfg.N

\* A test that takes every update for the first one.
FirstUpdateAlways == TRUE

\* ea.current_update() == 0
FirstUpdate == update = 0

\* operator() at update 0 with a configuration initialize rejects.
InitializeFails ==
    /\ pc = "idle" /\ FirstUpdate
    /\ ConfigError
    /\ pc' = "failed"
    /\ UNCHANGED <<cfg, pop, adm, lpg, lpm, update, topUpd, nextName, bi, fi, ce,
                   exports, trace, tourn, imps, refill, potent, spfit, draws>>

\* operator() at update 0: initialize.
Initialize ==
    /\ pc = "idle" /\ FirstUpdate
    /\ ~ConfigError
    /\ LET total == SumAll(pop, Top)
           cnt == CountAll(pop, Top)
           all == SortAsc(Survivors(pop, Top, total, cnt))
       IN /\ \E g \in [Ranks -> InitialPopulation(0)] :
                pop' = Spread(all, [r \in Ranks |->
                          [j \in 1 .. cfg.N |->
                              <<Fit(g[r][j]), NameAt(nextName, (Top - r) * cfg.N + j)>>]])
          /\ nextName' = Bump(nextName, cfg.K * cfg.N)
          /\ adm' = InitialLevels(all, total, cnt)
          /\ lpg' = 0
          /\ lpm' = 0
          /\ \/ pc' = "breed"
             \/ CopyOverflows(all) /\ pc' = "crashed"
    /\ nextName' <= MaxNames
    /\ bi' = 0
    /\ trace' = <<Stage("init", 0, 0)>>
    /\ tourn' = <<>> /\ imps' = <<>>
    /\ UNCHANGED <<cfg, update, topUpd, fi, ce, exports, refill, potent, spfit,
                   draws>>

\* operator() at a later update: initialize is skipped.
BeginUpdate ==
    /\ pc = "idle" /\ ~FirstUpdate /\ update < MaxUpdates
    /\ pc' = "breed"
    /\ bi' = 0
    /\ UNCHANGED <<cfg, pop, adm, lpg, lpm, update, topUpd, nextName, fi, ce,
                   exports, trace, tourn, imps, refill, potent, spfit, draws>>

\* ------------------------------------------------------------- breed_top
\* A progress test that also counts a maximum equal to the last one.
ProgressOrEqual(mx, last) == mx >= last

\* max(spfit) > QHFC_LAST_PROGRESS_MAX
Progress(mx, last) == mx > last

\* A stagnation test that fires one step late.
StagnantLate(now, last) == now - last > cfg.npg

\* (top.current_update() - QHFC_LAST_PROGRESS_GEN) >= QHFC_NO_PROGRESS_GEN
Stagnant(now, last) == now - last >= cfg.npg

\* A loop of breed_top that runs once, whatever the frequency.
BreedContinuesOnce(i) == i < 1

\* The condition i < get<QHFC_BREED_TOP_FREQ>(ea) of the loop of breed_top.
BreedContinues(i) == i < cfg.btf

\* An iteration of the loop of breed_top in which a refill counts as progress:
\* it restarts the stagnation count.
BreedTopResets ==
    /\ pc = "breed" /\ BreedContinues(bi)
    /\ \E p \in InternalUpdate(pop[Top], nextName) :
         LET now == topUpd + 1
             mx == MaxFitOf(p)
             gen == IF Progress(mx, lpm) THEN now ELSE lpg
             P1 == [pop EXCEPT ![Top] = p]
             nid == Bump(nextName, Len(p))
         IN /\ topUpd' = now
            /\ lpg' = IF Stagnant(now, gen) THEN now ELSE gen
            /\ lpm' = IF Progress(mx, lpm) THEN mx ELSE lpm
            /\ spfit' = mx
            /\ IF Stagnant(now, gen)
               THEN \E c \in ImportCall(P1, Top - 1, RefillSize(Len(p)), nid) :
                    \E next \in Elitism(p, Len(p) - Len(c.res.out)) :
                       /\ pop' = [c.res.pop EXCEPT ![Top] = next \o c.res.out]
                       /\ nextName' = c.res.nid
                       /\ imps' = <<c.log>>
                       /\ refill' = TRUE
               ELSE /\ pop' = P1
                    /\ nextName' = nid
                    /\ imps' = <<>>
                    /\ refill' = FALSE
    /\ nextName' <= MaxNames
    /\ bi' = bi + 1
    /\ pc' = IF BreedContinues(bi + 1) THEN "breed" ELSE "adjust"
    /\ trace' = Append(trace, Stage("breed", Top, bi))
    /\ tourn' = <<>>
    /\ draws' = ImportDraws(imps')
    /\ UNCHANGED <<cfg, adm, update, fi, ce, exports, potent>>

\* One iteration of the loop of breed_top.
BreedTop ==
    /\ pc = "breed" /\ BreedContinues(bi)
    /\ \E p \in InternalUpdate(pop[Top], nextName) :
         LET now == topUpd + 1
             mx == MaxFitOf(p)
             gen == IF Progress(mx, lpm) THEN now ELSE lpg
             P1 == [pop EXCEPT ![Top] = p]
             nid == Bump(nextName, Len(p))
         IN /\ topUpd' = now
            /\ lpg' = gen
            /\ lpm' = IF Progress(mx, lpm) THEN mx ELSE lpm
            /\ spfit' = mx
            /\ IF Stagnant(now, gen)
               THEN \E c \in ImportCall(P1, Top - 1, RefillSize(Len(p)), nid) :
                    \E next \in Elitism(p, Len(p) - Len(c.res.out)) :
                       /\ pop' = [c.res.pop EXCEPT ![Top] = next \o c.res.out]
                       /\ nextName' = c.res.nid
                       /\ imps' = <<c.log>>
                       /\ refill' = TRUE
               ELSE /\ pop' = P1
                    /\ nextName' = nid
                    /\ imps' = <<>>
                    /\ refill' = FALSE
    /\ nextName' <= MaxNames
    /\ bi' = bi + 1
    /\ pc' = IF BreedContinues(bi + 1) THEN "breed" ELSE "adjust"
    /\ trace' = Append(trace, Stage("breed", Top, bi))
    /\ tourn' = <<>>
    /\ draws' = ImportDraws(imps')
    /\ UNCHANGED <<cfg, adm, update, fi, ce, exports, potent>>

\* ---------------------------------------------- adjust_admission_levels
\* mean(topfit) > 2*admission(top) - admission(top-1), for a top tier with
\* fitness sum sm over cnt individuals.
Rebalance(sm, cnt, A) == sm * Scale > cnt * (2 * A[Top] - A[Top - 1])

\* A level that moves half way from its old value to the new one.
LevelDamped(i, mx, A) == (A[i] + A[0] + (i * (mx * Scale - A[0])) \div cfg.K) \div 2

\* fmin + i*(fmax-fmin)/K, times Scale (mx is the maximum fitness of the top tier).
Level(i, mx, A) == A[0] + (i * (mx * Scale - A[0])) \div cfg.K

\* A loop that stops one tier early.
LoopStopsEarly(i) == i > 1

\* A loop that goes on until the iterator i has passed the bottom tier.
LoopReachesBottom(i) == i >= 0

\* The condition (i+1) != ea.rend() of the loop of operator(): the iterator i
\* has not reached the bottom tier.
LoopContinues(i) == i # 0

\* A rebalance that leaves the level of the top tier alone.
AdjustedBelowTop == 1 .. (cfg.K - 2)

\* The ranks whose level a rebalance sets.
Adjusted == 1 .. (cfg.K - 1)

\* A rebalance that also moves the bottom level, to the mean of the top tier.
AdjustLevelsMovesBottom(P, A) ==
    IF Rebalance(SumFit(P[Top]), Len(P[Top]), A)
    THEN [r \in Ranks |-> IF r \in Adjusted THEN Level(r, MaxFitOf(P[Top]), A)
                          ELSE (SumFit(P[Top]) * Scale) \div Len(P[Top])]
    ELSE A

\* The admission levels adjust_admission_levels leaves, for populations P and
\* levels A.
AdjustLevels(P, A) ==
    IF Rebalance(SumFit(P[Top]), Len(P[Top]), A)
    THEN [r \in Ranks |-> IF r \in Adjusted THEN Level(r, MaxFitOf(P[Top]), A)
                          ELSE A[r]]
    ELSE A

AdjustAdmissionLevels ==
    /\ pc = "adjust"
    /\ IF adm[Top] = NoLevel \/ adm[Top - 1] = NoLevel
       THEN \* get<QHFC_ADMISSION_LEVEL> of a tier whose level was never put
            /\ pc' = "aborted"
            /\ UNCHANGED <<adm, fi, ce, exports, trace>>
       ELSE /\ adm' = AdjustLevels(pop, adm)
            /\ trace' = Append(trace, Stage("adjust", Top,
                                 IF Rebalance(SumFit(pop[Top]), Len(pop[Top]), adm)
                                 THEN 1 ELSE 0))
            /\ pc' = IF LoopContinues(Top - 1) THEN "test" ELSE "end"
            /\ fi' = Top - 1
            /\ ce' = 0
            /\ exports' = <<>>
    /\ tourn' = <<>> /\ imps' = <<>>
    /\ spfit' = 0
    /\ draws' = {}
    /\ UNCHANGED <<cfg, pop, lpg, lpm, update, topUpd, nextName, bi, refill, potent>>

\* -------------------------------------------------------- potency_testing
\* A while loop without the iteration cap.
LoopCondUncapped(c, size, nexp) == nexp < cfg.den

\* The condition of the while loop, before catchup_eval is incremented.
LoopCond(c, size, nexp) == c < cfg.cg * size /\ nexp < cfg.den

\* A promotion test that admits a survivor exactly at the level.
PromotesAtLevel(x, t, nexp) == Fit(x) * Scale >= adm[t] /\ nexp < cfg.den

\* A promotion test that forgets the quota.
PromotesOverQuota(x, t, nexp) == Fit(x) * Scale > adm[t]

\* The condition under which a survivor x of the tournament is promoted to t.
Promotes(x, t, nexp) == Fit(x) * Scale > adm[t] /\ nexp < cfg.den

\* A potency flag that asks for more exports than the quota.
PotentAboveQuota(nexp) == nexp > cfg.den

\* bool potent
Potent(nexp) == nexp >= cfg.den

\* deterministic_crowding on the two parents: of each (parent, offspring)
\* pair the parent survives only when it is strictly fitter.
Crowding(parents, offspring) ==
    [k \in 1 .. 2 |-> IF Fit(parents[k]) > Fit(offspring[k]) THEN parents[k]
                      ELSE offspring[k]]

\* A for loop that appends a promoted survivor to f as well as to the exports,
\* in place of the individual imported for it.
RECURSIVE RouteReturnsExport(_, _)
RouteReturnsExport(st, surv) ==
    IF surv = <<>> THEN {st}
    ELSE IF Promotes(Head(surv), fi + 1, Len(st.exports))
    THEN RouteReturnsExport([st EXCEPT !.pop[fi] = Append(@, Head(surv)),
                                       !.exports = Append(@, Head(surv)),
                                       !.routed = Append(@, TRUE)], Tail(surv))
    ELSE RouteReturnsExport([st EXCEPT !.pop[fi] = Append(@, Head(surv)),
                                       !.routed = Append(@, FALSE)], Tail(surv))

\* The for loop over the survivors: st is the state so far (populations,
\* exports, names, import records, routing flags), surv the survivors left.
RECURSIVE Route(_, _)
Route(st, surv) ==
    IF surv = <<>> THEN {st}
    ELSE IF Promotes(Head(surv), fi + 1, Len(st.exports))
    THEN UNION { Route([pop |-> [c.res.pop EXCEPT ![fi] = @ \o c.res.out],
                        exports |-> Append(st.exports, Head(surv)),
                        nid |-> c.res.nid,
                        imps |-> Append(st.imps, c.log),
                        routed |-> Append(st.routed, TRUE)], Tail(surv)) :
                   c \in ImportCall(st.pop, fi - 1, 1, st.nid) }
    ELSE Route([st EXCEPT !.pop[fi] = Append(@, Head(surv)),
                          !.routed = Append(@, FALSE)], Tail(surv))

\* One iteration of the while loop of potency_testing(t, f) with f = fi.
PotencyStep ==
    /\ pc = "test"
    /\ LoopCond(ce, Len(pop[fi]), Len(exports))
    /\ \E s \in RandomSplit(pop[fi], 2) :
       \E parents \in Shuffles(s.out) :
       \E offspring \in Generate(2, nextName) :
       \E r \in Route([pop |-> [pop EXCEPT ![fi] = s.rest], exports |-> exports,
                       nid |-> Bump(nextName, 2), imps |-> <<>>, routed |-> <<>>],
                      Crowding(parents, offspring)) :
          /\ pop' = r.pop
          /\ exports' = r.exports
          /\ nextName' = r.nid
          /\ imps' = r.imps
          /\ tourn' = <<[surv |-> Crowding(parents, offspring), routed |-> r.routed,
                         had |-> Len(exports)]>>
    /\ nextName' <= MaxNames
    /\ ce' = ce + 1
    /\ draws' = {Draw("pair", EaRng), Draw("pairing", fi)} \cup ImportDraws(imps')
    /\ UNCHANGED <<cfg, adm, lpg, lpm, update, topUpd, pc, bi, fi, trace, refill,
                   potent, spfit>>

\* An exchange that keeps the members at the front of t, whatever their fitness.
ExchangeKeepsFront(t, e) == { SubSeq(t, 1, Len(t) - Len(e)) \o e }

\* The populations the exchange at the end of potency_testing can leave in a
\* tier with population t for the exports e: the selection of
\* t.size() - exports.size() members of t, then the exports.
Exchange(t, e) == { next \o e : next \in Elitism(t, Len(t) - Len(e)) }

\* The end of potency_testing(t, f): the exports replace the weakest of t.
PotencyDone ==
    /\ pc = "test"
    /\ ~LoopCond(ce, Len(pop[fi]), Len(exports))
    /\ \E new \in Exchange(pop[fi + 1], exports) :
          pop' = [pop EXCEPT ![fi + 1] = new]
    /\ potent' = Potent(Len(exports))
    /\ trace' = Append(trace, Stage("test", fi, Len(exports)))
    /\ IF potent'
       THEN /\ pc' = IF LoopContinues(fi - 1) THEN "test" ELSE "end"
            /\ fi' = fi - 1
       ELSE /\ pc' = "refresh"
            /\ fi' = fi
    /\ ce' = 0
    /\ exports' = <<>>
    /\ tourn' = <<>> /\ imps' = <<>>
    /\ draws' = {}
    /\ UNCHANGED <<cfg, adm, lpg, lpm, update, topUpd, nextName, bi, refill, spfit>>

\* ------------------------------------------------------- direct refresh
\* A refresh that appends the batch without making room for it.
TruncateNot(sh, k) == sh

\* i->population().resize(get<POPULATION_SIZE>(*i) - imports.size())
Truncate(sh, k) == SubSeq(sh, 1, cfg.N - k)

\* The body of if(!potency_testing(...)) up to i->append.
DirectRefresh ==
    /\ pc = "refresh"
    /\ \E c \in ImportCall(pop, fi - 1, RefillSize(Len(pop[fi])), nextName) :
       \E sh \in Shuffles(c.res.pop[fi]) :
          /\ pop' = [c.res.pop EXCEPT
                       ![fi] = Truncate(sh, Len(c.res.out)) \o c.res.out]
          /\ nextName' = c.res.nid
          /\ imps' = <<c.log>>
          /\ trace' = Append(trace, Stage("refresh", fi, 0))
    /\ pc' = "update"
    /\ tourn' = <<>>
    /\ draws' = {Draw("shuffle", EaRng)} \cup ImportDraws(imps')
    /\ UNCHANGED <<cfg, adm, lpg, lpm, update, topUpd, bi, fi, ce, exports, refill,
                   potent, spfit>>

\* An update of the refreshed tier after which the levels are adjusted again.
TierUpdateReadjusts ==
    /\ pc = "update"
    /\ \E p \in InternalUpdate(pop[fi], nextName) :
          /\ pop' = [pop EXCEPT ![fi] = p]
          /\ nextName' = Bump(nextName, Len(p))
    /\ nextName' <= MaxNames
    /\ trace' = Append(trace, Stage("update", fi, 0))
    /\ pc' = "adjust"
    /\ fi' = fi - 1
    /\ ce' = 0
    /\ exports' = <<>>
    /\ tourn' = <<>> /\ imps' = <<>>
    /\ draws' = {}
    /\ UNCHANGED <<cfg, adm, lpg, lpm, update, topUpd, bi, refill, potent, spfit>>

\* An update of the refreshed tier that records progress as breed_top does.
TierUpdateTracks ==
    /\ pc = "update"
    /\ \E p \in InternalUpdate(pop[fi], nextName) :
          /\ pop' = [pop EXCEPT ![fi] = p]
          /\ nextName' = Bump(nextName, Len(p))
          /\ lpm' = IF Progress(MaxFitOf(p), lpm) THEN MaxFitOf(p) ELSE lpm
          /\ lpg' = IF Progress(MaxFitOf(p), lpm) THEN topUpd ELSE lpg
    /\ nextName' <= MaxNames
    /\ trace' = Append(trace, Stage("update", fi, 0))
    /\ pc' = IF LoopContinues(fi - 1) THEN "test" ELSE "end"
    /\ fi' = fi - 1
    /\ ce' = 0
    /\ exports' = <<>>
    /\ tourn' = <<>> /\ imps' = <<>>
    /\ draws' = {}
    /\ UNCHANGED <<cfg, adm, update, topUpd, bi, refill, potent, spfit>>

\* i->update() of the refreshed tier, and the step of the loop.
TierUpdate ==
    /\ pc = "update"
    /\ \E p \in InternalUpdate(pop[fi], nextName) :
          /\ pop' = [pop EXCEPT ![fi] = p]
          /\ nextName' = Bump(nextName, Len(p))
    /\ nextName' <= MaxNames
    /\ trace' = Append(trace, Stage("update", fi, 0))
    /\ pc' = IF LoopContinues(fi - 1) THEN "test" ELSE "end"
    /\ fi' = fi - 1
    /\ ce' = 0
    /\ exports' = <<>>
    /\ tourn' = <<>> /\ imps' = <<>>
    /\ draws' = {}
    /\ UNCHANGED <<cfg, adm, lpg, lpm, update, topUpd, bi, refill, potent, spfit>>

\* The generational model returns; the metapopulation counts the update.
EndUpdate ==
    /\ pc = "end"
    /\ update' = update + 1
    /\ pc' = "idle"
    /\ trace' = <<>>
    /\ potent' = FALSE
    /\ tourn' = <<>> /\ imps' = <<>>
    /\ draws' = {}
    /\ UNCHANGED <<cfg, pop, adm, lpg, lpm, topUpd, nextName, bi, fi, ce, exports,
                   refill, spfit>>

\* --------------------------------------------------------- specification
\* A configuration.
Config(K, N, den, cg, pct, btf, npg, names) ==
    [K |-> K, N |-> N, den |-> den, cg |-> cg, pct |-> pct, btf |-> btf,
     npg |-> npg, names |-> names]

\* The state after construction under a configuration of the set C: every tier
\* holds POPULATION_SIZE generated individuals, no level is set.
InitWith(C) ==
    /\ cfg \in C
    /\ \E g \in [0 .. (cfg.K - 1) -> [1 .. cfg.N -> 0 .. MaxFit]] :
          pop = [r \in 0 .. (cfg.K - 1) |->
                   [j \in 1 .. cfg.N |-> <<g[r][j], NameAt(0, r * cfg.N + j)>>]]
    /\ nextName = Bump(0, cfg.K * cfg.N)
    /\ adm = [r \in 0 .. (cfg.K - 1) |-> NoLevel]
    /\ lpg = Unset /\ lpm = Unset
    /\ update = 0
    /\ topUpd = 0
    /\ pc = "idle"
    /\ bi = 0 /\ fi = 0 /\ ce = 0
    /\ exports = <<>> /\ trace = <<>> /\ tourn = <<>> /\ imps = <<>>
    /\ refill = FALSE /\ potent = FALSE
    /\ spfit = 0
    /\ draws = {}

Next ==
    \/ InitializeFails
    \/ Initialize
    \/ BeginUpdate
    \/ BreedTop
    \/ AdjustAdmissionLevels
    \/ PotencyStep
    \/ PotencyDone
    \/ DirectRefresh
    \/ TierUpdate
    \/ EndUpdate

\* Three tiers of two, quota 1, one breeding step per update; and the two
\* configurations initialize rejects.
MainConfigs ==
    { Config(3, 2, 1, 1, <<1, 2>>, 1, 1, FALSE),
      Config(2, 2, 1, 1, <<1, 2>>, 1, 1, FALSE),
      Config(3, 2, 1, 1, <<1, 4>>, 1, 1, FALSE) }

Init == InitWith(MainConfigs)

Spec == Init /\ [][Next]_vars

\* Quota 2, two breeding steps per update, stagnation after two steps.
QuotaConfigs ==
    { Config(3, 2, 2, 1, <<1, 2>>, 2, 2, FALSE),
      Config(2, 2, 2, 1, <<1, 2>>, 2, 2, FALSE) }

InitQuota == InitWith(QuotaConfigs)

SpecQuota == InitQuota /\ [][Next]_vars

\* Four tiers: two tier pairs are tested, the cascade is up to three deep.
TierConfigs ==
    { Config(4, 2, 1, 1, <<1, 2>>, 1, 1, FALSE),
      Config(2, 2, 1, 1, <<1, 2>>, 1, 1, FALSE) }

InitTiers == InitWith(TierConfigs)

SpecTiers == InitTiers /\ [][Next]_vars

\* percent_refill = 1 and detect_export_num = population_size.
ApexConfigs ==
    { Config(3, 2, 2, 1, <<1, 1>>, 1, 1, FALSE),
      Config(2, 2, 2, 1, <<1, 1>>, 1, 1, FALSE) }

InitApex == InitWith(ApexConfigs)

SpecApex == InitApex /\ [][Next]_vars

\* population_size * percent_refill = 3/2 is not an integer.
BatchConfigs ==
    { Config(3, 2, 1, 1, <<3, 4>>, 1, 1, FALSE),
      Config(2, 2, 1, 1, <<3, 4>>, 1, 1, FALSE) }

InitBatch == InitWith(BatchConfigs)

SpecBatch == InitBatch /\ [][Next]_vars

\* Individuals carry their names, which tells a survivor from a generated
\* individual of the same fitness.
NameConfigs ==
    { Config(3, 2, 1, 1, <<1, 2>>, 1, 1, TRUE),
      Config(2, 2, 1, 1, <<1, 2>>, 1, 1, TRUE) }

InitNames == InitWith(NameConfigs)

SpecNames == InitNames /\ [][Next]_vars

\* ================================================================ claims
\* The number of members of s equal to x.
Occurs(s, x) == Cardinality({ i \in 1 .. Len(s) : s[i] = x })

\* Every individual occurs in a at most as often as in b.
SubBag(a, b) == \A i \in 1 .. Len(a) : Occurs(a, a[i]) <= Occurs(b, a[i])

\* The tiers under test of the potency tests run so far in this update, in order.
Tested == LET t == SelectSeq(trace, LAMBDA e : e.op = "test")
          IN [k \in 1 .. Len(t) |-> t[k].tier]

\* The ranks from hi down to lo.
Down(hi, lo) == [k \in 1 .. (hi - lo + 1) |-> hi - k + 1]

\* C1: after every update (update 0, which runs initialize, included) every
\* tier holds exactly POPULATION_SIZE individuals.
C1_TierSizes ==
    (pc \in {"end", "idle"}) => \A r \in Ranks : Len(pop[r]) = cfg.N

\* The second update ends; in it a tier was found impotent and directly refreshed.
C1_Witness ==
    /\ pc = "end" /\ update = 1
    /\ \E i \in 1 .. Len(trace) : trace[i].op = "refresh"
    /\ \A r \in Ranks : Len(pop[r]) = cfg.N

\* C2: a tournament survivor is exported from f only if its fitness is strictly
\* greater than the admission level of the tier above f; a survivor at or below
\* that level is returned to f.
C2_StrictAdmission ==
    tourn # <<>> =>
       \A k \in 1 .. 2 :
          /\ tourn[1].routed[k] => Fit(tourn[1].surv[k]) * Scale > adm[fi + 1]
          /\ Fit(tourn[1].surv[k]) * Scale <= adm[fi + 1] =>
                /\ ~tourn[1].routed[k]
                /\ \E j \in 1 .. Len(pop[fi]) : pop[fi][j] = tourn[1].surv[k]

\* A tournament whose first survivor is above the level and exported and whose
\* second survivor is exactly at the level and kept.
C2_Witness ==
    /\ tourn # <<>>
    /\ tourn[1].routed = <<TRUE, FALSE>>
    /\ Fit(tourn[1].surv[2]) * Scale = adm[fi + 1]
    /\ Fit(tourn[1].surv[1]) * Scale > adm[fi + 1]

\* C3 as claimed: in every update the tiers under test are top-1 down to and
\* including the bottom tier, each once, in that order.
C3_Original ==
    pc = "end" => Tested = Down(cfg.K - 2, 0)

\* C3: in every update the tiers under test are top-1 down to rank 1, each
\* once, in that order; the bottom tier is never the tier under test.
C3_TestedPairs ==
    /\ pc = "end" => Tested = Down(cfg.K - 2, 1)
    /\ pc = "test" => fi >= 1 /\ Tested = Down(cfg.K - 2, fi + 1)

\* An update of four tiers has tested tier 2 and then tier 1.
C3_Witness ==
    pc = "end" /\ cfg.K = 4 /\ Tested = <<2, 1>>

C5_ExportQuota ==
    /\ Len(exports) <= cfg.den
    /\ tourn # <<>> =>
          /\ tourn[1].had < cfg.den
          /\ Len(exports) =
                tourn[1].had + Cardinality({ k \in 1 .. 2 : tourn[1].routed[k] })
          /\ (tourn[1].routed[1] /\ tourn[1].had + 1 = cfg.den) =>
                /\ ~tourn[1].routed[2]
                /\ pop[fi][Len(pop[fi])] = tourn[1].surv[2]
    /\ (trace # <<>> /\ trace[Len(trace)].op = "test") =>
          /\ trace[Len(trace)].arg <= cfg.den
          /\ potent <=> (trace[Len(trace)].arg = cfg.den)

\* With quota 1, both survivors of a tournament are above the level of the
\* tier above: the first is exported, the second is returned to f.
C5_Witness ==
    /\ tourn # <<>> /\ cfg.den = 1
    /\ \A k \in 1 .. 2 : Fit(tourn[1].surv[k]) * Scale > adm[fi + 1]
    /\ tourn[1].routed = <<TRUE, FALSE>>
    /\ Len(exports) = 1

\* C6: after import_from_below(f, n) every tier from f down to the bottom has
\* the size it had before the call, and exactly n individuals are returned, all
\* of them members of tier f before the call.
C6_ImportKeepsSizes ==
    \A i \in 1 .. Len(imps) :
       /\ \A r \in 0 .. imps[i].f : imps[i].after[r] = imps[i].before[r]
       /\ Len(imps[i].out) = imps[i].n
       /\ SubBag(imps[i].out, imps[i].src)

\* An import of one individual from tier 1 of three tiers.
C6_Witness ==
    /\ imps # <<>>
    /\ imps[1].f = 1 /\ imps[1].n = 1
    /\ Len(imps[1].out) = 1
    /\ imps[1].after[1] = cfg.N /\ imps[1].after[0] = cfg.N

\* C7: import_from_below(f, n) visits each tier from f down to the bottom
\* exactly once (the recursion is as deep as there are tiers below f), and
\* generated individuals are added to the bottom tier only, exactly n of them.
C7_CascadeDepth ==
    \A i \in 1 .. Len(imps) :
       /\ imps[i].visited = Down(imps[i].f, 0)
       /\ \A r \in Ranks : imps[i].fresh[r] = IF r = 0 THEN imps[i].n ELSE 0

\* An import from tier 2 of four tiers: three calls, two below the first.
C7_Witness ==
    /\ imps # <<>>
    /\ imps[1].f = 2 /\ imps[1].n = 1
    /\ imps[1].visited = <<2, 1, 0>>
    /\ imps[1].fresh[0] = 1

\* The positions inside an update.
Busy == pc \in {"breed", "adjust", "test", "refresh", "update", "end"}

\* C8: a call of potency_testing runs at most catchup_gen * |f| tournaments and
\* then returns, whether or not an individual qualifies; an update is a bounded
\* number of stages, none of which blocks, so every update terminates.
C8_BoundedWork ==
    /\ pc = "test" => ce <= cfg.cg * Len(pop[fi])
    /\ (pc = "test" /\ ce = cfg.cg * Len(pop[fi])) => ~ENABLED PotencyStep
    /\ Len(trace) <= 2 + cfg.btf + 3 * (cfg.K - 2)
    /\ Busy => ENABLED Next

\* The cap is reached in a call in which no survivor ever qualified.
C8_Witness ==
    /\ pc = "test"
    /\ ce = cfg.cg * Len(pop[fi]) /\ ce = 2
    /\ exports = <<>>

\* C9: under a configuration with meta_population_size <= 2 or
\* population_size * percent_refill < 1 the only step is the failure of
\* initialize: it changes no population, no admission level and no progress
\* field, and no stage of the update runs.
C9_ConfigErrorIsInert ==
    [][(cfg.K <= 2 \/ cfg.N * cfg.pct[1] < cfg.pct[2]) =>
          /\ pc = "idle" /\ pc' = "failed"
          /\ UNCHANGED <<pop, adm, lpg, lpm, update, topUpd, trace, imps, tourn>>
          /\ trace = <<>>]_vars

\* initialize has failed on three tiers with population_size * percent_refill < 1.
C9_Witness ==
    /\ pc = "failed"
    /\ cfg.K = 3 /\ cfg.N * cfg.pct[1] < cfg.pct[2]
    /\ trace = <<>>
    /\ \A r \in Ranks : adm[r] = NoLevel

\* C10: adjust_admission_levels rebalances exactly when
\* mean_top > 2*admission(top) - admission(top-1); a rebalance sets
\* admission(r) = admission(0) + r*(max_top - admission(0))/K for every rank
\* 1 <= r < K, and otherwise every admission level is unchanged.
C10_Rebalance ==
    [][(pc = "adjust" /\ pc' # "aborted") =>
          IF SumFit(pop[Top]) * Scale > Len(pop[Top]) * (2 * adm[Top] - adm[Top - 1])
          THEN /\ \A r \in 1 .. (cfg.K - 1) :
                     cfg.K * (adm'[r] - adm[0])
                        = r * (MaxFitOf(pop[Top]) * Scale - adm[0])
               /\ adm'[0] = adm[0]
          ELSE adm' = adm]_vars

\* A rebalance has just set the levels of ranks 1 and 2 to different values.
C10_Witness ==
    /\ trace # <<>>
    /\ trace[Len(trace)].op = "adjust" /\ trace[Len(trace)].arg = 1
    /\ adm[Top] > adm[Top - 1] /\ adm[Top - 1] > adm[0]

\* The last stage run in the current update, if any.
LastStage == IF trace = <<>> THEN Stage("none", 0, 0) ELSE trace[Len(trace)]

\* C11: adjust_admission_levels is idempotent: in the state a call leaves
\* (no population has changed since), a second call leaves every admission
\* level as the first call left it, whether or not the first call rebalanced.
C11_AdjustIdempotent ==
    LastStage.op = "adjust" => AdjustLevels(pop, adm) = adm

\* A call has just rebalanced to three different levels, and the condition of
\* a second call is false.
C11_Witness ==
    /\ LastStage.op = "adjust" /\ LastStage.arg = 1
    /\ adm[Top] > adm[Top - 1] /\ adm[Top - 1] > adm[0]
    /\ ~Rebalance(SumFit(pop[Top]), Len(pop[Top]), adm)
    /\ AdjustLevels(pop, adm) = adm

\* C12 as claimed: no exchange lowers the maximum fitness of the top tier: a
\* stagnation refill leaves a maximum at least that of the bred top tier, and a
\* promotion into the top tier leaves a maximum at least the one before it.
C12_ApexRetainsBest ==
    [][/\ (topUpd' # topUpd /\ refill') => MaxFitOf(pop'[Top]) >= spfit'
       /\ (pc = "test" /\ fi = Top - 1 /\ trace' # trace) =>
             MaxFitOf(pop'[Top]) >= MaxFitOf(pop[Top])]_vars

\* The individuals of the populations P.
Members(P) == { P[r][j] : r \in DOMAIN P, j \in 1 .. cfg.N }

\* The individuals of P with fitness >= the mean fitness of all of P.
AboveMean(P) ==
    { x \in Members(P) : Fit(x) * CountAll(P, Top) >= SumAll(P, Top) }

\* The slots of tier r of P that hold the individual x.
SlotsOf(P, r, x) == { j \in 1 .. Len(P[r]) : P[r][j] = x }

\* The number of slots of tier r of P that hold a member of S.
Holds(P, r, S) == Cardinality({ j \in 1 .. Len(P[r]) : P[r][j] \in S })

\* C13 as claimed: initialize returns normally; every individual of the
\* starting population with fitness >= the mean F is afterwards in exactly one
\* slot of one tier and no individual below F is left; every tier above the
\* bottom holds |survivors| / K of them and the bottom tier these and the
\* |survivors| mod K remaining ones; every tier has population_size members.
C13_SurvivorsPlaced ==
    [][(pc = "idle" /\ update = 0 /\ pc' # "failed") =>
          LET S == AboveMean(pop)
              n == Cardinality(S)
          IN /\ pc' = "breed"
             /\ \A x \in S :
                   Cardinality({ r \in Ranks : SlotsOf(pop', r, x) # {} }) = 1
                   /\ \A r \in Ranks : Cardinality(SlotsOf(pop', r, x)) <= 1
             /\ Members(pop') \cap (Members(pop) \ S) = {}
             /\ \A r \in Ranks :
                   Holds(pop', r, S) = (n \div cfg.K)
                                         + (IF r = 0 THEN n % cfg.K ELSE 0)
             /\ \A r \in Ranks : Len(pop'[r]) = cfg.N]_vars

\* The fitnesses of the members of S in tier r of P.
FitsIn(P, r, S) == { Fit(P[r][j]) : j \in { i \in 1 .. Len(P[r]) : P[r][i] \in S } }

\* C14 as claimed: when initialize has returned, admission(0) is the mean F
\* of the starting population and, for every rank r >= 1, admission(r) is set
\* and equals the lowest fitness among the survivors placed in tier r.
C14_InitialLevels ==
    [][(pc = "idle" /\ update = 0 /\ pc' = "breed") =>
          /\ adm'[0] * CountAll(pop, Top) = Scale * SumAll(pop, Top)
          /\ \A r \in 1 .. Top :
                LET F == FitsIn(pop', r, AboveMean(pop))
                IN /\ adm'[r] # NoLevel
                   /\ F # {}
                   /\ \E v \in F : adm'[r] = v * Scale
                   /\ \A v \in F : adm'[r] <= v * Scale]_vars

\* C16 as claimed: every random draw of a step of the update (the split of an
\* import, the pair of a tournament, the pairing shuffle inside the
\* tournament, the shuffle of a direct refresh) advances the generator of the
\* metapopulation and no generator of a tier.
C16_SingleGenerator ==
    \A d \in draws : d.gen = EaRng

\* C17: after initialization last_progress_update and last_progress_max change
\* only in a breeding step of the top tier, and there only by the progress
\* test, whether or not the step also imports; the steps of adjust, of a
\* potency test with its imports, of a direct refresh and of the update of a
\* refreshed tier leave both unchanged.
C17_TrackerFrame ==
    [][/\ (lpg' # lpg \/ lpm' # lpm) =>
             \/ pc = "breed" /\ topUpd' = topUpd + 1
             \/ pc = "idle" /\ update = 0 /\ lpg = Unset
       /\ pc \in {"adjust", "test", "refresh", "update", "end"} =>
             (lpg' = lpg /\ lpm' = lpm)
       /\ (pc = "breed" /\ spfit' <= lpm) => (lpg' = lpg /\ lpm' = lpm)]_vars

\* A direct refresh has just imported from below, after the top breeder had
\* recorded progress.
C17_Witness ==
    /\ pc = "update" /\ LastStage.op = "refresh"
    /\ imps # <<>>
    /\ lpg = 1 /\ lpm = 1

\* C18: adjust_admission_levels changes nothing but the admission levels of
\* ranks >= 1: the population of every tier (members and order), the admission
\* level of the bottom tier, the progress fields and the counters are the same
\* after the call as before, whether or not it rebalanced.
C18_AdjustFrame ==
    [][pc = "adjust" =>
          /\ pop' = pop
          /\ adm'[0] = adm[0]
          /\ UNCHANGED <<cfg, lpg, lpm, update, topUpd, nextName>>]_vars

\* A call has just rebalanced: the level of the top tier was moved, the bottom
\* level is still the mean 0 that initialize had set.
C18_Witness ==
    /\ LastStage = Stage("adjust", Top, 1)
    /\ pc = "test"
    /\ adm[0] = 0 /\ adm[Top] > 0
    /\ MaxFitOf(pop[Top]) > 0

\* The last step was a stagnation refill or a direct refresh: imps holds its
\* one import.
Refilled ==
    \/ LastStage.op = "breed" /\ refill /\ imps # <<>>
    \/ LastStage.op = "refresh"

\* C19 as claimed: the batch of a stagnation refill and of a direct refresh
\* has exactly ceil(percent_refill * population_size) individuals.
C19_Original ==
    Refilled =>
       /\ Len(imps[1].out) = imps[1].n
       /\ imps[1].n * cfg.pct[2] >= cfg.pct[1] * cfg.N
       /\ (imps[1].n - 1) * cfg.pct[2] < cfg.pct[1] * cfg.N

\* C19: the batch of a stagnation refill and of a direct refresh has exactly
\* floor(percent_refill * population_size) individuals (the product converted
\* to an unsigned integer), which is at least one.
C19_BatchSize ==
    Refilled =>
       /\ Len(imps[1].out) = imps[1].n
       /\ imps[1].n * cfg.pct[2] <= cfg.pct[1] * cfg.N
       /\ (imps[1].n + 1) * cfg.pct[2] > cfg.pct[1] * cfg.N
       /\ imps[1].n >= 1

\* A direct refresh with percent_refill = 3/4 of a tier of two has imported a
\* batch of one.
C19_Witness ==
    /\ LastStage.op = "refresh"
    /\ cfg.pct = <<3, 4>> /\ cfg.N = 2
    /\ imps[1].n = 1 /\ Len(imps[1].out) = 1

\* The members of a, as often as they occur, are the members of b.
SameBag(a, b) == SubBag(a, b) /\ SubBag(b, a)

\* C20: at the end of potency_testing(t, f), potent or not, the population of
\* t keeps its size and consists of retained previous members followed by all
\* the exports; every previous member that was displaced has a fitness <= the
\* fitness of every retained member; with no export the members of t are the
\* same as before.
C20_ElitistReplace ==
    [][(pc = "test" /\ trace' # trace) =>
          LET old == pop[fi + 1]
              new == pop'[fi + 1]
              kept == SubSeq(new, 1, Len(new) - Len(exports))
          IN /\ Len(new) = Len(old)
             /\ SubSeq(new, Len(new) - Len(exports) + 1, Len(new)) = exports
             /\ SubBag(kept, old)
             /\ \A i \in 1 .. Len(old) :
                   Occurs(old, old[i]) > Occurs(kept, old[i]) =>
                      \A j \in 1 .. Len(kept) : Fit(old[i]) <= Fit(kept[j])
             /\ exports = <<>> => SameBag(new, old)
             /\ \A r \in Ranks \ {fi + 1} : pop'[r] = pop[r]]_vars

\* A potent test has ended with one export, now the last member of the tier
\* above; the member that tier retained is as fit as can be.
C20_Witness ==
    /\ LastStage.op = "test" /\ LastStage.arg = 1
    /\ potent
    /\ Len(pop[LastStage.tier + 1]) = cfg.N
    /\ Fit(pop[LastStage.tier + 1][1]) = MaxFit

\* The number of stages op run on the tier in the current update.
CountOp(op, tier) ==
    Cardinality({ k \in 1 .. Len(trace) : trace[k].op = op /\ trace[k].tier = tier })

\* Stage k of the current update is the stage op on the tier.
IsStage(k, op, tier) ==
    k \in 1 .. Len(trace) /\ trace[k].op = op /\ trace[k].tier = tier

\* C21: in an update a tier is directly refreshed, and then internally
\* updated, exactly once if its potency test exported fewer individuals than
\* the quota, directly after that test; a tier whose test reached the quota is
\* neither refreshed nor updated; the refreshed tier has population_size
\* members, the last of which are the imported batch.
C21_RefreshIffImpotent ==
    /\ \A k \in 1 .. Len(trace) :
          /\ trace[k].op = "refresh" =>
                IsStage(k - 1, "test", trace[k].tier) /\ trace[k - 1].arg < cfg.den
          /\ trace[k].op = "update" => IsStage(k - 1, "refresh", trace[k].tier)
          /\ trace[k].op = "test" =>
                IF trace[k].arg < cfg.den
                THEN /\ k < Len(trace) => IsStage(k + 1, "refresh", trace[k].tier)
                     /\ k + 1 < Len(trace) => IsStage(k + 2, "update", trace[k].tier)
                     /\ k = Len(trace) => pc = "refresh"
                     /\ k + 1 = Len(trace) => pc = "update"
                ELSE /\ CountOp("refresh", trace[k].tier) = 0
                     /\ CountOp("update", trace[k].tier) = 0
    /\ \A r \in Ranks : CountOp("refresh", r) <= 1 /\ CountOp("update", r) <= 1
    /\ LastStage.op = "refresh" =>
          /\ Len(pop[fi]) = cfg.N
          /\ SubSeq(pop[fi], cfg.N - imps[1].n + 1, cfg.N) = imps[1].out

\* An update of four tiers has ended: tier 2 was potent and left alone, tier 1
\* was impotent, refreshed and updated.
C21_Witness ==
    /\ pc = "end" /\ cfg.K = 4
    /\ \E k \in 1 .. Len(trace) : IsStage(k, "test", 2) /\ trace[k].arg = cfg.den
    /\ CountOp("refresh", 2) = 0 /\ CountOp("update", 2) = 0
    /\ \E k \in 1 .. Len(trace) : IsStage(k, "test", 1) /\ trace[k].arg = 0
    /\ CountOp("refresh", 1) = 1 /\ CountOp("update", 1) = 1

\* C22: when breed_top has returned, the internal update of the top tier has
\* run exactly breed_top_freq times in this update, and breed_top_freq times
\* in every earlier update, whether or not a run refilled; inside breed_top it
\* has run once per iteration so far.
C22_BreedCount ==
    /\ pc \in {"adjust", "aborted", "test", "refresh", "update", "end"} =>
          /\ CountOp("breed", Top) = cfg.btf
          /\ topUpd = (update + 1) * cfg.btf
    /\ pc = "breed" =>
          /\ CountOp("breed", Top) = bi /\ bi < cfg.btf
          /\ topUpd = update * cfg.btf + bi
    /\ pc = "idle" => topUpd = update * cfg.btf

\* breed_top has returned in the second update after two internal updates of
\* the top tier, the last of which refilled.
C22_Witness ==
    /\ pc = "adjust" /\ cfg.btf = 2 /\ update = 1
    /\ CountOp("breed", Top) = 2
    /\ topUpd = 4
    /\ refill /\ imps # <<>>

C24_InitializeOnce ==
    [][/\ (pc = "idle" /\ update = 0 /\ pc' # "failed") =>
             /\ trace' = <<Stage("init", 0, 0)>>
             /\ lpg' = 0 /\ lpm' = 0
       /\ (pc = "idle" /\ update > 0) => (pc' = "breed" /\ trace' = <<>>)
       /\ \A k \in 1 .. Len(trace') :
             trace'[k].op = "init" => (k = 1 /\ update' = 0)
       /\ (trace' # <<>> /\ update' = 0) => trace'[1].op = "init"]_vars

\* The second update has run all its stages, the first of them the breeding
\* of the top tier; initialize is none of them.
C24_Witness ==
    /\ pc = "end" /\ update = 1
    /\ trace[1].op = "breed"
    /\ CountOp("init", 0) = 0
    /\ lpg # Unset

\* The place of a stage in an update: initialize, breeding, adjust, then the
\* potency tests with their refreshes.
Phase(e) == CASE e.op = "init" -> 0
              [] e.op = "breed" -> 1
              [] e.op = "adjust" -> 2
              [] OTHER -> 3

\* C25: the stages of an update run in the order breeding of the top tier,
\* adjust (once), potency tests; the tiers under test descend, a refresh and
\* an update of a tier come before any stage of a lower tier; no admission
\* level changes once adjust has returned, so every test of the update reads
\* the levels adjust left.
C25_StageOrder ==
    [][/\ \A j, k \in 1 .. Len(trace') :
             j < k =>
                /\ Phase(trace'[j]) <= Phase(trace'[k])
                /\ Phase(trace'[j]) = 3 => trace'[j].tier >= trace'[k].tier
                /\ (trace'[j].op = "test" /\ trace'[k].op = "test") =>
                      trace'[j].tier > trace'[k].tier
                /\ trace'[j].op = "adjust" => trace'[k].op # "adjust"
       /\ pc' \in {"test", "refresh", "update", "end"} =>
             /\ LET e == trace'[Len(SelectSeq(trace', LAMBDA x : Phase(x) < 2)) + 1]
                IN e.op = "adjust"
             /\ CountOp("breed", Top)' = cfg.btf
       /\ pc \in {"test", "refresh", "update", "end"} => adm' = adm]_vars

\* The second update of four tiers has ended: breeding, adjust, the test of
\* tier 2 with its refresh and update, then the test of tier 1.
C25_Witness ==
    /\ pc = "end" /\ cfg.K = 4 /\ update = 1
    /\ Len(trace) >= 6
    /\ trace[1].op = "breed" /\ trace[2].op = "adjust"
    /\ IsStage(3, "test", 2) /\ IsStage(4, "refresh", 2) /\ IsStage(5, "update", 2)
    /\ IsStage(6, "test", 1)

\* initialize or a rebalance was the last stage.
LevelsJustSet ==
    \/ LastStage.op = "init" /\ pc = "breed"
    \/ LastStage.op = "adjust" /\ LastStage.arg = 1

\* C26 as claimed: immediately after initialize and immediately after every
\* rebalance every tier has an admission level and the levels are
\* non-decreasing with rank.
C26_LevelsOrdered ==
    LevelsJustSet =>
       \A r \in 0 .. (Top - 1) :
          /\ adm[r] # NoLevel /\ adm[r + 1] # NoLevel
          /\ adm[r] <= adm[r + 1]

\* The individuals of the sequence s.
Elems(s) == { s[j] : j \in 1 .. Len(s) }

\* C27: in every step after initialize, an individual that was in tier r
\* and is in a tier afterwards is in tier r or in tier r + 1; the individuals
\* collected for export come from the tier under test and enter the tier
\* directly above it; the fill policy adds individuals to the bottom tier only.
C27_NoDownwardMove ==
    [][pc # "idle" =>
          /\ \A r, q \in Ranks :
                Elems(pop[r]) \cap Elems(pop'[q]) # {} => (q = r \/ q = r + 1)
          /\ \A r \in Ranks :
                Elems(pop[r]) \cap Elems(exports') # {} => r = fi
          /\ \A q \in Ranks :
                Elems(exports) \cap Elems(pop'[q]) # {} => q = fi + 1
          /\ \A i \in 1 .. Len(imps') :
                \A r \in 1 .. Top : imps'[i].fresh[r] = 0]_vars

\* A direct refresh of tier 1 has just moved an individual of tier 0 into
\* tier 1; it is no longer in tier 0.
C27_Witness ==
    /\ cfg.names
    /\ LastStage = Stage("refresh", 1, 0)
    /\ imps[1].f = 0 /\ Len(imps[1].out) = 1
    /\ imps[1].out[1] \in Elems(imps[1].src)
    /\ imps[1].out[1] \in Elems(pop[1])
    /\ imps[1].out[1] \notin Elems(pop[0])

\* No individual occurs twice in the sequence s.
Distinct(s) == \A i, j \in 1 .. Len(s) : s[i] = s[j] => i = j

\* C28: in every state no individual is a member of two tiers or occurs twice
\* in one tier, and an individual collected for export is in no tier and is
\* collected once.
C28_NoDuplicates ==
    cfg.names =>
       /\ \A r \in Ranks : Distinct(pop[r])
       /\ \A r, q \in Ranks : r # q => Elems(pop[r]) \cap Elems(pop[q]) = {}
       /\ Distinct(exports)
       /\ \A r \in Ranks : Elems(pop[r]) \cap Elems(exports) = {}

\* In a potency test a survivor of the last tournament has been collected for
\* export and an individual taken out of the tier below has taken its place
\* in the tier under test.
C28_Witness ==
    /\ cfg.names
    /\ pc = "test" /\ exports # <<>> /\ tourn # <<>> /\ imps # <<>>
    /\ exports[Len(exports)] \in Elems(tourn[1].surv)
    /\ imps[1].f = fi - 1
    /\ imps[1].out[1] \in Elems(imps[1].src)
    /\ imps[1].out[1] \in Elems(pop[fi])

\* C29: a breeding step that refills without progress leaves both progress
\* fields as they were, and when the breeding step before it refilled and the
\* internal update of this one does not raise the maximum above
\* last_progress_max, this one refills again; every breeding step of one
\* update can refill.
C29_RefillRepeats ==
    [][topUpd' # topUpd =>
          /\ (refill' /\ ~(spfit' > lpm)) => (lpg' = lpg /\ lpm' = lpm)
          /\ (refill /\ ~(spfit' > lpm)) =>
                (refill' /\ topUpd' - lpg' > cfg.npg)]_vars

\* breed_top has returned after breed_top_freq = 2 internal updates of the top
\* tier in one update, and both were followed by a refill: the stagnation
\* count was already at no_progress_gen at the first of them.
C29_Witness ==
    /\ pc = "adjust" /\ cfg.btf = 2 /\ bi = 2
    /\ refill /\ imps # <<>>
    /\ topUpd - lpg >= cfg.npg + 1

\* The number of individuals asked for by the import calls logged in l.
RECURSIVE Imported(_)
Imported(l) == IF l = <<>> THEN 0 ELSE Head(l).n + Imported(Tail(l))

\* C30: the bottom tier is never the tier under test, never directly
\* refreshed and never updated by the generational model; after initialize a
\* step changes its population only when an import call of the step reached
\* it, and then its size is unchanged and its new members are individuals
\* generated in that step, at most as many as the calls asked for.
C30_BottomOnlyRefilled ==
    /\ [](/\ pc \in {"test", "refresh", "update"} => fi >= 1
          /\ \A k \in 1 .. Len(trace) :
                trace[k].op \in {"breed", "test", "refresh", "update"}
                   => trace[k].tier >= 1)
    /\ [][(pc # "idle" /\ pop'[0] # pop[0]) =>
             /\ \E i \in 1 .. Len(imps') :
                   imps'[i].visited[Len(imps'[i].visited)] = 0
             /\ Len(pop'[0]) = Len(pop[0])
             /\ cfg.names =>
                   /\ \A x \in Elems(pop'[0]) \ Elems(pop[0]) :
                         Name(x) > nextName /\ Name(x) <= nextName'
                   /\ Cardinality(Elems(pop'[0]) \ Elems(pop[0]))
                         <= Imported(imps')]_vars

\* The direct refresh of tier 1 has taken one member out of the bottom tier,
\* which holds the individual generated in its place; tier 1, not the bottom
\* tier, is about to be updated.
C30_Witness ==
    /\ cfg.names
    /\ pc = "update" /\ fi = 1
    /\ LastStage = Stage("refresh", 1, 0)
    /\ imps[1].visited = <<0>> /\ imps[1].fresh[0] = 1
    /\ imps[1].out[1] \notin Elems(pop[0])
    /\ \E j \in 1 .. Len(pop[0]) : Name(pop[0][j]) = nextName

====
